---- MODULE Spec2Model ----
(***************************************************************************)
(* The cart / order state machine of core/views.py: the request handlers   *)
(* add_to_cart, remove_from_cart, remove_single_item_from_cart,            *)
(* add_coupon, CheckoutView.post, verify_payment and                       *)
(* RequestRefundView.post acting on the relational store (Order,           *)
(* OrderItem, Payment, BillingAddress, Refund rows), and the views that    *)
(* only read it (OrderSummaryView, CheckoutView.get, PaymentView).         *)
(*                                                                         *)
(* A handler is an operator from the store and the request's inputs to the *)
(* store it leaves and the response it returns.  The state of the model is *)
(* the store; a response is an output, not state.                          *)
(*                                                                         *)
(* Spec     : every request runs to completion before the next starts.     *)
(* SpecConc : verify_payment requests run as sequences of single store     *)
(*            reads and writes (the settings set no ATOMIC_REQUESTS, so    *)
(*            every ORM call commits on its own) and interleave.           *)
(* SpecCart : add_to_cart requests run and interleave the same way.        *)
(***************************************************************************)
EXTENDS Integers, Sequences, FiniteSets, TLC

(* ------------------------------ bounds -------------------------------- *)
MaxQuantity == 3
MaxOrders == 2
MaxOrderItems == 2
MaxBillingAddresses == 1
MaxRefunds == 1

(* ------------------------------ inputs -------------------------------- *)
Users == {"u1", "u2"}
\* slugs of the Items in the catalog, and one slug no Item has
Slugs == {"mug"}
UnknownSlug == "nope"
\* codes in the Coupon table, and one code no Coupon has
Codes == {"SAVE10", "WELCOME5"}
UnknownCode == "BOGUS"
\* a CouponForm whose code field is empty does not validate
EmptyCode == ""
\* razorpay payment ids, and the signature values a caller can send:
\* the gateway's signature for a payment id, or a forged one
PaymentIds == {"pay_1", "pay_2"}
Forged == "forged"
Signatures == PaymentIds \cup {Forged}
\* the values random.choices can return in create_ref_code
RefCodes == {"r1", "r2"}
None == "None"

\* the requests that can be in flight at once
Slots == {1, 2}

VARIABLES orders, order_items, payments, billing_addresses, refunds,
          \* per slot, the request in flight: where it stands and its locals
          procs

vars == <<orders, order_items, payments, billing_addresses, refunds, procs>>

\* the store as one value
Store ==
    [orders |-> orders, order_items |-> order_items, payments |-> payments,
     billing_addresses |-> billing_addresses, refunds |-> refunds]

(* ------------------------------ rows ---------------------------------- *)
\* a deleted OrderItem row: primary keys are never reused
Deleted == [user |-> None, item |-> None, quantity |-> 0, ordered |-> FALSE,
            live |-> FALSE]

\* OrderItem(item=item, user=request.user, ordered=False), quantity 1
NewOrderItem(u, slug) ==
    [user |-> u, item |-> slug, quantity |-> 1, ordered |-> FALSE, live |-> TRUE]

\* Order(user=request.user), every other field at its default
NewOrder(u) ==
    [user |-> u, ordered |-> FALSE, items |-> {}, payment |-> 0,
     ref_code |-> None, coupon |-> None, billing_address |-> 0,
     refund_requested |-> FALSE]

OrderIds(st) == 1..Len(st.orders)
OrderItemIds(st) == {k \in 1..Len(st.order_items) : st.order_items[k].live}

(* ----------------------------- responses ------------------------------ *)
Redirect(to, msg) == [kind |-> "redirect", to |-> to, msg |-> msg]
Json(msg) == [kind |-> "json", to |-> None, msg |-> msg]
BadRequest(msg) == [kind |-> "bad_request", to |-> None, msg |-> msg]
Http404 == [kind |-> "not_found", to |-> None, msg |-> None]
\* an exception no handler catches leaves the view: the framework answers 500
Unhandled(exc) == [kind |-> "exception", to |-> None, msg |-> exc]
\* render(request, template, context): a page
Render(template) == [kind |-> "render", to |-> None, msg |-> template]
\* the view function returned None
NoResponse == [kind |-> "none", to |-> None, msg |-> None]

\* what a handler yields: the store it leaves and its response
Result(st, r) == [st |-> st, resp |-> r]

(* ------------------------------ queries ------------------------------- *)
\* Order.objects.filter(user=request.user, ordered=False)
ActiveOrders(st, u) ==
    {o \in OrderIds(st) : st.orders[o].user = u /\ ~st.orders[o].ordered}

\* order.items.filter(item__slug=item.slug)
ItemsOfOrder(st, o, slug) ==
    {k \in st.orders[o].items :
        k \in OrderItemIds(st) /\ st.order_items[k].item = slug}

\* OrderItem.objects.filter(item=item, user=request.user, ordered=False)
MatchingOrderItems(st, u, slug) ==
    {k \in OrderItemIds(st) : /\ st.order_items[k].user = u
                              /\ st.order_items[k].item = slug
                              /\ ~st.order_items[k].ordered}

\* Order.objects.filter(ref_code=ref_code)
OrdersByRefCode(st, code) ==
    {o \in OrderIds(st) : st.orders[o].ref_code = code}

\* QuerySet.first(): the row with the lowest primary key
First(S) == CHOOSE o \in S : \A p \in S : o <= p

\* the rows order_qs[0] may return: the queryset has no ordering
\* (0 when there is none)
Picks(st, u) == IF ActiveOrders(st, u) = {} THEN {0} ELSE ActiveOrders(st, u)

(* --------------------------- small steps ------------------------------ *)
\* the verification call left out: every signature passes
SignatureVerified_Skipped(pid, sig) == TRUE

\* client.utility.verify_payment_signature: the gateway accepts exactly the
\* signature it issued for the payment id (modelled as the id itself)
SignatureVerified(pid, sig) == sig = pid

\* the existence check made on the finalized Orders instead of the active ones
CartExists_WrongFlag(st, u) ==
    {o \in OrderIds(st) : st.orders[o].user = u /\ st.orders[o].ordered} # {}

\* order_qs.exists() in add_to_cart
CartExists(st, u) == ActiveOrders(st, u) # {}

\* the ordered=False filter left out of the lookup
VerifyTarget_AnyOrder(st, u) == {o \in OrderIds(st) : st.orders[o].user = u}

\* the rows Order.objects.get(user=request.user, ordered=False) selects from
\* in verify_payment
VerifyTarget(st, u) == ActiveOrders(st, u)

\* Payment.objects.create(user=..., razorpay_payment_id=..., amount=...); the
\* amount is Order.get_total() of core/models.py, which no handler reads back
NewPayment(u, pid) == [user |-> u, razorpay_payment_id |-> pid]

\* the assignment order.ordered = True left out
FinalizedRow_NoFlag(row, pay, ref) ==
    [row EXCEPT !.payment = pay, !.ref_code = ref]

\* the assignment order.ref_code = create_ref_code() left out
FinalizedRow_NoRefCode(row, pay, ref) ==
    [row EXCEPT !.ordered = TRUE, !.payment = pay]

\* order.ordered = True; order.payment = payment; order.ref_code = ...
FinalizedRow(row, pay, ref) ==
    [row EXCEPT !.ordered = TRUE, !.payment = pay, !.ref_code = ref]

\* the comparison off by one: quantity >= 1
QuantityAboveOne_OffByOne(row) == row.quantity >= 1

\* order_item.quantity > 1 in remove_single_item_from_cart
QuantityAboveOne(row) == row.quantity > 1

\* order.items.add(order_item)
Attach(os, o, k) == [os EXCEPT ![o].items = @ \cup {k}]

\* order.items.remove(order_item): one row of the many-to-many table goes
Detach(os, o, k) == [os EXCEPT ![o].items = @ \ {k}]

\* order_item.delete(): the row goes, and with it every many-to-many row
\* that references it
DetachEverywhere(os, k) ==
    [o \in DOMAIN os |-> [os[o] EXCEPT !.items = @ \ {k}]]

(* ------------------------------ handlers ------------------------------ *)
\* add_to_cart(request, slug); pick is the row order_qs[0] returns
add_to_cart(st, u, slug, pick) ==
    IF slug \notin Slugs THEN Result(st, Http404)
    ELSE LET found == MatchingOrderItems(st, u, slug) IN
    IF Cardinality(found) > 1
    THEN Result(st, Unhandled("MultipleObjectsReturned"))
    ELSE LET created == found = {}
             ois == IF created
                    THEN Append(st.order_items, NewOrderItem(u, slug))
                    ELSE st.order_items
             k == IF created THEN Len(ois) ELSE CHOOSE x \in found : TRUE
             st1 == [st EXCEPT !.order_items = ois]
             ok == Redirect("core:order-summary", "Item added to cart")
         IN  IF CartExists(st1, u)
             THEN IF ItemsOfOrder(st1, pick, slug) # {}
                  THEN Result([st1 EXCEPT !.order_items[k].quantity = @ + 1], ok)
                  ELSE Result([st1 EXCEPT !.orders = Attach(@, pick, k)], ok)
             ELSE Result([st1 EXCEPT !.orders =
                             Append(@, [NewOrder(u) EXCEPT !.items = {k}])], ok)

\* remove_from_cart(request, slug)
remove_from_cart(st, u, slug) ==
    IF slug \notin Slugs THEN Result(st, Http404)
    ELSE IF /\ ActiveOrders(st, u) # {}
            /\ ItemsOfOrder(st, First(ActiveOrders(st, u)), slug) # {}
    THEN LET o == First(ActiveOrders(st, u))
             found == MatchingOrderItems(st, u, slug)
         IN  IF found = {} THEN Result(st, Unhandled("DoesNotExist"))
             ELSE IF Cardinality(found) > 1
             THEN Result(st, Unhandled("MultipleObjectsReturned"))
             ELSE LET k == CHOOSE x \in found : TRUE IN
                  Result([st EXCEPT
                            !.orders = DetachEverywhere(Detach(@, o, k), k),
                            !.order_items[k] = Deleted],
                         Redirect("core:order-summary",
                                  "Item removed from your cart"))
    ELSE Result(st, Redirect("core:product", "Item not in your cart"))

\* remove_single_item_from_cart(request, slug)
remove_single_item_from_cart(st, u, slug) ==
    IF slug \notin Slugs THEN Result(st, Http404)
    ELSE IF /\ ActiveOrders(st, u) # {}
            /\ ItemsOfOrder(st, First(ActiveOrders(st, u)), slug) # {}
    THEN LET o == First(ActiveOrders(st, u))
             found == MatchingOrderItems(st, u, slug)
         IN  IF found = {} THEN Result(st, Unhandled("DoesNotExist"))
             ELSE IF Cardinality(found) > 1
             THEN Result(st, Unhandled("MultipleObjectsReturned"))
             ELSE LET k == CHOOSE x \in found : TRUE
                      ok == Redirect("core:order-summary",
                                     "Item quantity updated")
                  IN  IF QuantityAboveOne(st.order_items[k])
                      THEN Result([st EXCEPT !.order_items[k].quantity = @ - 1],
                                  ok)
                      ELSE Result([st EXCEPT !.orders = Detach(@, o, k)], ok)
    ELSE Result(st, Redirect("core:product", "Item not in your cart"))

\* the Coupon lookup left out: whatever code was sent is set on the Order
add_coupon_NoLookup(st, u, code) ==
    IF code = EmptyCode THEN Result(st, NoResponse)
    ELSE IF ActiveOrders(st, u) = {}
    THEN Result(st, Redirect("core:checkout", "Invalid coupon"))
    ELSE IF Cardinality(ActiveOrders(st, u)) > 1
    THEN Result(st, Unhandled("MultipleObjectsReturned"))
    ELSE LET o == CHOOSE x \in ActiveOrders(st, u) : TRUE IN
         Result([st EXCEPT !.orders[o].coupon = code],
                Redirect("core:checkout", "Coupon applied"))

\* add_coupon(request), POST
add_coupon(st, u, code) ==
    IF code = EmptyCode THEN Result(st, NoResponse)
    ELSE IF ActiveOrders(st, u) = {}
    THEN Result(st, Redirect("core:checkout", "Invalid coupon"))
    ELSE IF Cardinality(ActiveOrders(st, u)) > 1
    THEN Result(st, Unhandled("MultipleObjectsReturned"))
    ELSE IF code \notin Codes
    THEN Result(st, Redirect("core:checkout", "Invalid coupon"))
    ELSE LET o == CHOOSE x \in ActiveOrders(st, u) : TRUE IN
         Result([st EXCEPT !.orders[o].coupon = code],
                Redirect("core:checkout", "Coupon applied"))

\* CheckoutView.post; valid is form.is_valid()
CheckoutView_post(st, u, valid) ==
    IF ActiveOrders(st, u) = {}
    THEN Result(st, Redirect("core:order-summary", None))
    ELSE IF Cardinality(ActiveOrders(st, u)) > 1
    THEN Result(st, Unhandled("MultipleObjectsReturned"))
    ELSE IF valid
    THEN LET o == CHOOSE x \in ActiveOrders(st, u) : TRUE IN
         Result([st EXCEPT
                   !.billing_addresses = Append(@, [user |-> u]),
                   !.orders[o].billing_address = Len(st.billing_addresses) + 1],
                Redirect("core:payment", None))
    ELSE Result(st, Redirect("core:checkout", "Checkout form is not valid."))

\* verify_payment(request), POST; ref is the value create_ref_code() draws
verify_payment(st, u, pid, sig, ref) ==
    IF ~SignatureVerified(pid, sig)
    THEN Result(st, BadRequest("Invalid Signature"))
    ELSE IF VerifyTarget(st, u) = {}
    THEN Result(st, Unhandled("DoesNotExist"))
    ELSE IF Cardinality(VerifyTarget(st, u)) > 1
    THEN Result(st, Unhandled("MultipleObjectsReturned"))
    ELSE LET o == CHOOSE x \in VerifyTarget(st, u) : TRUE IN
         Result([st EXCEPT
                   !.payments = Append(@, NewPayment(u, pid)),
                   !.orders[o] = FinalizedRow(@, Len(st.payments) + 1, ref)],
                Json("Payment verified successfully"))

\* RequestRefundView.post; valid is form.is_valid()
RequestRefundView_post(st, code, valid) ==
    IF ~valid THEN Result(st, NoResponse)
    ELSE IF OrdersByRefCode(st, code) = {}
    THEN Result(st, Redirect("core:request-refund", "Order not found."))
    ELSE IF Cardinality(OrdersByRefCode(st, code)) > 1
    THEN Result(st, Unhandled("MultipleObjectsReturned"))
    ELSE LET o == CHOOSE x \in OrdersByRefCode(st, code) : TRUE IN
         Result([st EXCEPT !.orders[o].refund_requested = TRUE,
                           !.refunds = Append(@, [order |-> o])],
                Redirect("core:request-refund", "Refund request received."))

(* ------------------------- views that only read ----------------------- *)
\* HomeView, a ListView: always a page
HomeView_get(st, u) == Result(st, Render("index.html"))

\* OrderSummaryView.get
OrderSummaryView_get(st, u) ==
    IF ActiveOrders(st, u) = {}
    THEN Result(st, Redirect("/", "You do not have an active order"))
    ELSE IF Cardinality(ActiveOrders(st, u)) > 1
    THEN Result(st, Unhandled("MultipleObjectsReturned"))
    ELSE Result(st, Render("order_summary.html"))

\* CheckoutView.get
CheckoutView_get(st, u) ==
    IF ActiveOrders(st, u) = {}
    THEN Result(st, Redirect("core:checkout", "You do not have an active order"))
    ELSE IF Cardinality(ActiveOrders(st, u)) > 1
    THEN Result(st, Unhandled("MultipleObjectsReturned"))
    ELSE Result(st, Render("checkout.html"))

\* PaymentView.get
PaymentView_get(st, u) ==
    IF ActiveOrders(st, u) = {}
    THEN Result(st, Redirect("/", None))
    ELSE IF Cardinality(ActiveOrders(st, u)) > 1
    THEN Result(st, Unhandled("MultipleObjectsReturned"))
    ELSE LET o == CHOOSE x \in ActiveOrders(st, u) : TRUE IN
         IF st.orders[o].billing_address = 0
         THEN Result(st, Redirect("core:checkout",
                                  "Please complete your billing address."))
         ELSE Result(st, Render("payment.html"))

\* the targets the views above and CheckoutView.post redirect to
Pages == {"/", "core:order-summary", "core:checkout", "core:payment"}

\* the URL configuration: the view that answers a GET of a page
Get(st, u, url) ==
    CASE url = "core:order-summary" -> OrderSummaryView_get(st, u)
      [] url = "core:checkout" -> CheckoutView_get(st, u)
      [] url = "core:payment" -> PaymentView_get(st, u)
      [] OTHER -> HomeView_get(st, u)

(* ------------------- requests, each run to completion ----------------- *)
\* no request in flight
Idle == [pc |-> "idle", user |-> None, pid |-> None, order |-> 0,
         row |-> NewOrder(None), payment |-> 0,
         slug |-> None, order_item |-> 0, order_item_row |-> Deleted]

Init ==
    /\ procs = [s \in Slots |-> Idle]
    /\ orders = <<>>
    /\ order_items = <<>>
    /\ payments = <<>>
    /\ billing_addresses = <<>>
    /\ refunds = <<>>

\* the store stays within the bounds of the model
Bounded(st) ==
    /\ Len(st.orders) <= MaxOrders
    /\ Len(st.order_items) <= MaxOrderItems
    /\ Len(st.billing_addresses) <= MaxBillingAddresses
    /\ Len(st.refunds) <= MaxRefunds
    /\ \A k \in OrderItemIds(st) : st.order_items[k].quantity <= MaxQuantity

\* the request's handler runs on the store and leaves its result there
Apply(r) ==
    /\ Bounded(r.st)
    /\ orders' = r.st.orders
    /\ order_items' = r.st.order_items
    /\ payments' = r.st.payments
    /\ billing_addresses' = r.st.billing_addresses
    /\ refunds' = r.st.refunds
    /\ UNCHANGED procs

AddToCart ==
    \E u \in Users, slug \in Slugs \cup {UnknownSlug} :
      \E pick \in Picks(Store, u) : Apply(add_to_cart(Store, u, slug, pick))

RemoveFromCart ==
    \E u \in Users, slug \in Slugs \cup {UnknownSlug} :
      Apply(remove_from_cart(Store, u, slug))

RemoveSingleItemFromCart ==
    \E u \in Users, slug \in Slugs \cup {UnknownSlug} :
      Apply(remove_single_item_from_cart(Store, u, slug))

AddCoupon ==
    \E u \in Users, code \in Codes \cup {UnknownCode, EmptyCode} :
      Apply(add_coupon(Store, u, code))

CheckoutPost ==
    \E u \in Users, valid \in BOOLEAN : Apply(CheckoutView_post(Store, u, valid))

VerifyPayment ==
    \E u \in Users, pid \in PaymentIds, sig \in Signatures, ref \in RefCodes :
      Apply(verify_payment(Store, u, pid, sig, ref))

RequestRefund ==
    \E code \in RefCodes, valid \in BOOLEAN :
      Apply(RequestRefundView_post(Store, code, valid))

Next ==
    \/ AddToCart
    \/ RemoveFromCart
    \/ RemoveSingleItemFromCart
    \/ AddCoupon
    \/ CheckoutPost
    \/ VerifyPayment
    \/ RequestRefund

Spec == Init /\ [][Next]_vars

(* ------------- requests as interleaved store reads and writes --------- *)
\* order.save(): every column of the row is written from the instance; the
\* many-to-many items are not columns of the row
SaveOrder(os, o, row) == [os EXCEPT ![o] = [row EXCEPT !.items = os[o].items]]

\* verify_payment up to the signature check: a rejected signature ends the
\* request with 400 and nothing read or written
VerifyBegin(s) ==
    /\ procs[s].pc = "idle"
    /\ \E u \in Users, pid \in PaymentIds, sig \in Signatures :
         procs' = [procs EXCEPT ![s] =
                     IF SignatureVerified(pid, sig)
                     THEN [Idle EXCEPT !.pc = "get", !.user = u, !.pid = pid]
                     ELSE Idle]
    /\ UNCHANGED <<orders, order_items, payments, billing_addresses, refunds>>

\* order = Order.objects.get(user=request.user, ordered=False): DoesNotExist
\* and MultipleObjectsReturned leave the view
VerifyGet(s) ==
    /\ procs[s].pc = "get"
    /\ LET target == VerifyTarget(Store, procs[s].user) IN
       procs' = [procs EXCEPT ![s] =
                   IF Cardinality(target) # 1 THEN Idle
                   ELSE LET o == CHOOSE x \in target : TRUE IN
                        [@ EXCEPT !.pc = "create", !.order = o,
                                  !.row = orders[o]]]
    /\ UNCHANGED <<orders, order_items, payments, billing_addresses, refunds>>

\* payment = Payment.objects.create(...)
VerifyCreate(s) ==
    /\ procs[s].pc = "create"
    /\ payments' = Append(payments, NewPayment(procs[s].user, procs[s].pid))
    /\ procs' = [procs EXCEPT ![s].pc = "save",
                              ![s].payment = Len(payments) + 1]
    /\ UNCHANGED <<orders, order_items, billing_addresses, refunds>>

\* order.ordered = True ... order.save(), and the response
VerifySave(s) ==
    /\ procs[s].pc = "save"
    /\ \E ref \in RefCodes :
         orders' = SaveOrder(orders, procs[s].order,
                             FinalizedRow(procs[s].row, procs[s].payment, ref))
    /\ procs' = [procs EXCEPT ![s] = Idle]
    /\ UNCHANGED <<order_items, payments, billing_addresses, refunds>>

\* no request is in flight
Quiescent == \A s \in Slots : procs[s].pc = "idle"

NextConc ==
    \/ AddToCart
    \/ \E s \in Slots : VerifyBegin(s)
    \/ \E s \in Slots : VerifyGet(s)
    \/ \E s \in Slots : VerifyCreate(s)
    \/ \E s \in Slots : VerifySave(s)

SpecConc == Init /\ [][NextConc]_vars

(* ----------- add_to_cart as interleaved store reads and writes -------- *)
\* order_item.quantity += 1; order_item.save(): every column of the row is
\* written from the instance get_or_create returned
SaveIncremented(ois, k, row) == [ois EXCEPT ![k] = [row EXCEPT !.quantity = @ + 1]]

\* add_to_cart up to get_object_or_404: the Item exists (a missing Item
\* ends the request with 404 and nothing read or written)
CartBegin(s) ==
    /\ procs[s].pc = "idle"
    /\ \E u \in Users, slug \in Slugs :
         procs' = [procs EXCEPT ![s] =
                     [Idle EXCEPT !.pc = "get_or_create", !.user = u,
                                  !.slug = slug]]
    /\ UNCHANGED <<orders, order_items, payments, billing_addresses, refunds>>

\* order_item, created = OrderItem.objects.get_or_create(item=item,
\* user=request.user, ordered=False), taken as one step on the store;
\* MultipleObjectsReturned leaves the view
CartGetOrCreate(s) ==
    /\ procs[s].pc = "get_or_create"
    /\ LET found == MatchingOrderItems(Store, procs[s].user, procs[s].slug) IN
       IF Cardinality(found) > 1
       THEN procs' = [procs EXCEPT ![s] = Idle] /\ UNCHANGED order_items
       ELSE IF found = {}
       THEN /\ Len(order_items) < MaxOrderItems
            /\ order_items' =
                 Append(order_items, NewOrderItem(procs[s].user, procs[s].slug))
            /\ procs' = [procs EXCEPT
                           ![s].pc = "exists",
                           ![s].order_item = Len(order_items) + 1,
                           ![s].order_item_row =
                               NewOrderItem(procs[s].user, procs[s].slug)]
       ELSE LET k == CHOOSE x \in found : TRUE IN
            /\ procs' = [procs EXCEPT ![s].pc = "exists",
                                      ![s].order_item = k,
                                      ![s].order_item_row = order_items[k]]
            /\ UNCHANGED order_items
    /\ UNCHANGED <<orders, payments, billing_addresses, refunds>>

\* if order_qs.exists():
CartExistsCheck(s) ==
    /\ procs[s].pc = "exists"
    /\ procs' = [procs EXCEPT ![s].pc =
                   IF CartExists(Store, procs[s].user)
                   THEN "order_qs_0" ELSE "order_create"]
    /\ UNCHANGED <<orders, order_items, payments, billing_addresses, refunds>>

\* order = order_qs[0]: the queryset is evaluated again, and has no
\* ordering; IndexError leaves the view when it is empty by now
CartPick(s) ==
    /\ procs[s].pc = "order_qs_0"
    /\ \E pick \in Picks(Store, procs[s].user) :
         procs' = [procs EXCEPT ![s] =
                     IF pick = 0 THEN Idle
                     ELSE [@ EXCEPT !.pc = "items_exists", !.order = pick]]
    /\ UNCHANGED <<orders, order_items, payments, billing_addresses, refunds>>

\* if order.items.filter(item__slug=item.slug).exists():
CartItemsCheck(s) ==
    /\ procs[s].pc = "items_exists"
    /\ procs' = [procs EXCEPT ![s].pc =
                   IF ItemsOfOrder(Store, procs[s].order, procs[s].slug) # {}
                   THEN "order_item_save" ELSE "items_add"]
    /\ UNCHANGED <<orders, order_items, payments, billing_addresses, refunds>>

\* order_item.quantity += 1; order_item.save(), and the response
CartSaveQuantity(s) ==
    /\ procs[s].pc = "order_item_save"
    /\ procs[s].order_item_row.quantity < MaxQuantity
    /\ order_items' = SaveIncremented(order_items, procs[s].order_item,
                                      procs[s].order_item_row)
    /\ procs' = [procs EXCEPT ![s] = Idle]
    /\ UNCHANGED <<orders, payments, billing_addresses, refunds>>

\* order = Order.objects.create(user=request.user, ...)
CartCreateOrder(s) ==
    /\ procs[s].pc = "order_create"
    /\ Len(orders) < MaxOrders
    /\ orders' = Append(orders, NewOrder(procs[s].user))
    /\ procs' = [procs EXCEPT ![s].pc = "items_add",
                              ![s].order = Len(orders) + 1]
    /\ UNCHANGED <<order_items, payments, billing_addresses, refunds>>

\* order.items.add(order_item), in either branch, and the response
CartAttach(s) ==
    /\ procs[s].pc = "items_add"
    /\ orders' = Attach(orders, procs[s].order, procs[s].order_item)
    /\ procs' = [procs EXCEPT ![s] = Idle]
    /\ UNCHANGED <<order_items, payments, billing_addresses, refunds>>

NextCart ==
    \/ \E s \in Slots : CartBegin(s)
    \/ \E s \in Slots : CartGetOrCreate(s)
    \/ \E s \in Slots : CartExistsCheck(s)
    \/ \E s \in Slots : CartPick(s)
    \/ \E s \in Slots : CartItemsCheck(s)
    \/ \E s \in Slots : CartSaveQuantity(s)
    \/ \E s \in Slots : CartCreateOrder(s)
    \/ \E s \in Slots : CartAttach(s)

SpecCart == Init /\ [][NextCart]_vars

(* =============================== claims =============================== *)
\* the fields of an Order that finalization sets
Finalization(row) == <<row.ordered, row.payment, row.ref_code>>

\* a response came back from the view: no exception left it, and it
\* returned something
Responded(r) == r.kind \notin {"exception", "none"}

\* C1: in every state reachable by requests run one at a time, every user
\* has at most one Order with ordered=false.
C1_AtMostOneActiveOrder ==
    \A u \in Users : Cardinality(ActiveOrders(Store, u)) <= 1

\* C1's case: a user who owns a finalized Order and an active one
C1_Witness ==
    \E u \in Users :
      /\ Cardinality(ActiveOrders(Store, u)) = 1
      /\ \E o \in OrderIds(Store) : orders[o].user = u /\ orders[o].ordered

\* C2: verify_payment with a signature the gateway rejects changes no
\* Order's ordered flag, payment or reference code, creates no Payment, and
\* answers 400 "Invalid Signature", whether or not the user has an active
\* Order.
C2_RejectedSignatureChangesNothing ==
    \A u \in Users, pid \in PaymentIds, sig \in Signatures, ref \in RefCodes :
      sig # pid =>
        LET r == verify_payment(Store, u, pid, sig, ref) IN
        /\ Len(r.st.orders) = Len(orders)
        /\ \A o \in OrderIds(Store) :
             Finalization(r.st.orders[o]) = Finalization(orders[o])
        /\ r.st.payments = payments
        /\ r.resp = BadRequest("Invalid Signature")

\* C2's case: the user has an active Order that the same request with the
\* genuine signature would finalize, and the forged one is refused
C2_Witness ==
    \E u \in Users, pid \in PaymentIds, ref \in RefCodes :
      /\ ActiveOrders(Store, u) # {}
      /\ verify_payment(Store, u, pid, pid, ref).st # Store
      /\ verify_payment(Store, u, pid, Forged, ref).resp.kind = "bad_request"

\* C3: after verify_payment has succeeded for a user, the same call again
\* (same user, same payment id, valid signature) creates no further Payment
\* and changes no Order: one Payment stands for the finalization.
C3_SecondVerifyIsNoOp ==
    \A u \in Users, pid \in PaymentIds, ref1 \in RefCodes, ref2 \in RefCodes :
      LET r1 == verify_payment(Store, u, pid, pid, ref1)
          r2 == verify_payment(r1.st, u, pid, pid, ref2)
      IN  r1.resp.kind = "json" =>
            /\ r2.st.payments = r1.st.payments
            /\ r2.st.orders = r1.st.orders
            /\ Len(r2.st.payments) = Len(payments) + 1

\* C3's case: the user's Order is finalized by a payment, no active Order
\* is left, and the call with that payment id comes again
C3_Witness ==
    \E u \in Users, o \in OrderIds(Store), ref \in RefCodes :
      /\ orders[o].user = u /\ orders[o].ordered /\ orders[o].items # {}
      /\ ActiveOrders(Store, u) = {}
      /\ LET pid == payments[orders[o].payment].razorpay_payment_id IN
         verify_payment(Store, u, pid, pid, ref).st = Store

\* the Payment rows of a user, and the user's finalized Orders
PaymentsOf(u) == {p \in 1..Len(payments) : payments[p].user = u}
FinalizedOrdersOf(u) ==
    {o \in OrderIds(Store) : orders[o].user = u /\ orders[o].ordered}

\* C4: when two verify_payment requests for the same user and active Order
\* interleave read by read and write by write, the Order is finalized once
\* and one Payment row is created: with no request in flight, a user has as
\* many Payment rows as finalized Orders.
C4_RetriedVerifyCreatesOnePayment ==
    Quiescent =>
      \A u \in Users :
        Cardinality(PaymentsOf(u)) = Cardinality(FinalizedOrdersOf(u))

\* the user's active cart holds no OrderItem for the item
CartLacksItem(st, u, slug) ==
    \A o \in ActiveOrders(st, u) : ItemsOfOrder(st, o, slug) = {}

\* the user has one active Order, and it holds one OrderItem for the item,
\* of quantity q
CartHoldsExactly(st, u, slug, q) ==
    /\ Cardinality(ActiveOrders(st, u)) = 1
    /\ \A o \in ActiveOrders(st, u) :
         /\ Cardinality(ItemsOfOrder(st, o, slug)) = 1
         /\ \A k \in ItemsOfOrder(st, o, slug) : st.order_items[k].quantity = q

\* C5: when the user's active cart holds no OrderItem for an item (an empty
\* cart or none yet), two consecutive add_to_cart calls for it leave the
\* active Order with exactly one OrderItem for the item, of quantity 2 (1
\* after the first call).
C5_TwoAddsYieldQuantityTwo ==
    \A u \in Users, slug \in Slugs :
      CartLacksItem(Store, u, slug) =>
        \A pick1 \in Picks(Store, u) :
          LET r1 == add_to_cart(Store, u, slug, pick1) IN
          /\ CartHoldsExactly(r1.st, u, slug, 1)
          /\ \A pick2 \in Picks(r1.st, u) :
               CartHoldsExactly(add_to_cart(r1.st, u, slug, pick2).st, u, slug, 2)

\* C6: remove_single_item_from_cart on an item in the active cart with
\* quantity q > 1 leaves it there with quantity q - 1; with quantity 1 it
\* leaves the active Order without an OrderItem for the item; the Order
\* stays active either way.
C6_RemoveOneDecrementsOrDetaches ==
    \A u \in Users, slug \in Slugs :
      \A o \in ActiveOrders(Store, u) :
        \A k \in ItemsOfOrder(Store, o, slug) :
          LET q == order_items[k].quantity
              r == remove_single_item_from_cart(Store, u, slug)
          IN  /\ q > 1 => /\ k \in ItemsOfOrder(r.st, o, slug)
                          /\ r.st.order_items[k].quantity = q - 1
              /\ q <= 1 => ItemsOfOrder(r.st, o, slug) = {}
              /\ o \in ActiveOrders(r.st, u)

\* C6's case: one user's cart holds the item with quantity 2 (a unit can be
\* taken off and the item stays), and another user's active cart is empty
\* with the quantity-1 OrderItem that was taken off it still stored
C6_Witness ==
    \E u \in Users, v \in Users, slug \in Slugs :
      /\ u # v
      /\ CartHoldsExactly(Store, u, slug, 2)
      /\ CartHoldsExactly(remove_single_item_from_cart(Store, u, slug).st,
                          u, slug, 1)
      /\ ActiveOrders(Store, v) # {}
      /\ CartLacksItem(Store, v, slug)
      /\ \E k \in MatchingOrderItems(Store, v, slug) :
           order_items[k].quantity = 1

\* C7: remove_single_item_from_cart on an item of quantity 1 leaves the
\* store exactly as remove_from_cart does from the same state: the OrderItem
\* row is deleted and detached, none for that user and item survives.
C7_RemoveOneAtOneIsFullRemoval ==
    \A u \in Users, slug \in Slugs :
      CartHoldsExactly(Store, u, slug, 1) =>
        LET r == remove_single_item_from_cart(Store, u, slug) IN
        /\ r.st = remove_from_cart(Store, u, slug).st
        /\ MatchingOrderItems(r.st, u, slug) = {}

\* C8: verify_payment with a valid signature for a user without an active
\* Order fails with an outcome recovered at the request boundary (a response
\* is returned, no exception leaves the view), creates no Payment and
\* changes no Order.
C8_NoActiveOrderIsRecovered ==
    \A u \in Users, pid \in PaymentIds, ref \in RefCodes :
      ActiveOrders(Store, u) = {} =>
        LET r == verify_payment(Store, u, pid, pid, ref) IN
        /\ Responded(r.resp)
        /\ r.st.payments = payments
        /\ r.st.orders = orders

\* C9: finalization is irreversible and history is kept: no step sets an
\* Order with ordered=true back to ordered=false, deletes it, or changes
\* its payment or reference code.
C9_FinalizationIrreversible ==
    [][\A o \in OrderIds(Store) :
         orders[o].ordered =>
           /\ o <= Len(orders')
           /\ orders'[o].user = orders[o].user
           /\ Finalization(orders'[o]) = Finalization(orders[o])]_vars

\* C9's case: a finalized Order whose owner went on to build a new cart
\* and whose refund was requested
C9_Witness ==
    \E o \in OrderIds(Store) :
      /\ orders[o].ordered
      /\ orders[o].refund_requested
      /\ \E a \in ActiveOrders(Store, orders[o].user) : orders[a].items # {}

\* C10: for every Order, ordered=true iff a Payment is attached iff it has
\* a reference code (so an active Order has neither), and every Payment row
\* is attached to exactly one Order, a finalized one.
C10_OrderedIffPaymentIffRefCode ==
    /\ \A o \in OrderIds(Store) :
         /\ orders[o].ordered <=> orders[o].payment # 0
         /\ orders[o].ordered <=> orders[o].ref_code # None
         /\ orders[o].payment \in 0..Len(payments)
    /\ \A p \in 1..Len(payments) :
         /\ Cardinality({o \in OrderIds(Store) : orders[o].payment = p}) = 1
         /\ \A o \in OrderIds(Store) :
              orders[o].payment = p =>
                orders[o].ordered /\ orders[o].user = payments[p].user

\* C10's case: two finalized Orders, each with its Payment
C10_Witness ==
    /\ Len(payments) = 2
    /\ \E o \in OrderIds(Store), a \in OrderIds(Store) :
         /\ o # a
         /\ orders[o].ordered /\ orders[a].ordered
         /\ orders[o].payment # orders[a].payment

\* C11: an Order is finalized only after a billing address was attached to
\* it: every Order with ordered=true has a BillingAddress.
C11_FinalizedOrderHasBilling ==
    \A o \in OrderIds(Store) :
      orders[o].ordered => orders[o].billing_address # 0

\* C12: RequestRefundView.post with a valid form and a reference code no
\* Order has creates no Refund, flags no Order and answers "Order not
\* found."; with a code an Order has, it sets refund_requested on that
\* Order, changes nothing else of it and changes no other Order.
C12_RefundFlagsTheMatchingOrder ==
    \A code \in RefCodes :
      LET r == RequestRefundView_post(Store, code, TRUE) IN
      /\ OrdersByRefCode(Store, code) = {} =>
           /\ r.st.refunds = refunds
           /\ r.st.orders = orders
           /\ r.resp = Redirect("core:request-refund", "Order not found.")
      /\ \A o \in OrdersByRefCode(Store, code) :
           /\ r.st.orders[o] = [orders[o] EXCEPT !.refund_requested = TRUE]
           /\ \A a \in OrderIds(Store) \ {o} : r.st.orders[a] = orders[a]

\* C13: reference codes are unique: no two finalized Orders hold the same
\* reference code, so the lookup by reference code in RequestRefundView.post
\* selects at most one Order.
C13_RefCodesUnique ==
    /\ \A o \in OrderIds(Store), a \in OrderIds(Store) :
         (o # a /\ orders[o].ordered /\ orders[a].ordered) =>
           orders[o].ref_code # orders[a].ref_code
    /\ \A code \in RefCodes : Cardinality(OrdersByRefCode(Store, code)) <= 1

C15_ValidationFailureIsRecovered ==
    /\ \A u \in Users :
         ActiveOrders(Store, u) # {} =>
           LET r == CheckoutView_post(Store, u, FALSE) IN
           /\ r.st = Store
           /\ Responded(r.resp)
           /\ r.resp.kind = "redirect" /\ r.resp.msg # None
    /\ \A code \in RefCodes :
         LET r == RequestRefundView_post(Store, code, FALSE) IN
         /\ r.st = Store
         /\ Responded(r.resp)
         /\ r.resp.kind = "redirect" /\ r.resp.msg # None

\* C18: the contents of a finalized Order are frozen: no OrderItem is
\* attached to a finalized Order and to an active Order at once, and no
\* step changes the set of OrderItems attached to an Order with
\* ordered=true or the quantity of any of them.
C18_FinalizedContentsFrozen ==
    /\ [](\A o \in OrderIds(Store), a \in OrderIds(Store) :
            (orders[o].ordered /\ ~orders[a].ordered) =>
              orders[o].items \cap orders[a].items = {})
    /\ [][\A o \in OrderIds(Store) :
            orders[o].ordered =>
              /\ orders'[o].items = orders[o].items
              /\ \A k \in orders[o].items :
                   order_items'[k].quantity = order_items[k].quantity]_vars

\* C19: a gateway payment finalizes at most one Order: no two Payment rows
\* carry the same razorpay_payment_id, and no two finalized Orders have
\* Payments of the same razorpay_payment_id.
C19_PaymentIdFinalizesOneOrder ==
    /\ \A p \in 1..Len(payments), q \in 1..Len(payments) :
         p # q =>
           payments[p].razorpay_payment_id # payments[q].razorpay_payment_id
    /\ \A o \in OrderIds(Store), a \in OrderIds(Store) :
         (o # a /\ orders[o].payment # 0 /\ orders[a].payment # 0) =>
           payments[orders[o].payment].razorpay_payment_id
             # payments[orders[a].payment].razorpay_payment_id

\* the response r, and the responses to the GETs its redirects lead to,
\* reach a rendered page within the given number of redirects
RECURSIVE Settles(_, _, _, _)
Settles(st, u, r, hops) ==
    IF r.kind # "redirect" THEN r.kind = "render"
    ELSE IF hops = 0 THEN FALSE
    ELSE Settles(st, u, Get(st, u, r.to).resp, hops - 1)

\* C20: following redirects terminates: in every state, for every user, a
\* GET of order-summary, checkout or payment, or a POST to checkout,
\* followed by the redirects the views return, reaches a view that renders
\* a page.  (The views that only read leave the store as it is, so a chain
\* longer than the number of pages has come back to a page it already
\* left and never ends.)
C20_RedirectsTerminate ==
    \A u \in Users :
      /\ \A url \in Pages \ {"/"} :
           Settles(Store, u, Get(Store, u, url).resp, Cardinality(Pages))
      /\ \A valid \in BOOLEAN :
           LET r == CheckoutView_post(Store, u, valid) IN
           Settles(r.st, u, r.resp, Cardinality(Pages))

\* C16: when add_to_cart requests of a user with no active Order interleave
\* read by read and write by write, then with no request in flight every
\* user still has at most one Order with ordered=false, and at most one
\* OrderItem with ordered=false exists per user and item.
C16_InterleavedAddsKeepOneCart ==
    Quiescent =>
      /\ \A u \in Users : Cardinality(ActiveOrders(Store, u)) <= 1
      /\ \A u \in Users, slug \in Slugs :
           Cardinality(MatchingOrderItems(Store, u, slug)) <= 1

\* C17: no quantity update is lost: when two add_to_cart requests of one
\* user have both read the OrderItem of an item that is in the active cart
\* with quantity q, and both are about to save their increment, the stored
\* quantity after both saves is q + 2.
C17_NoLostQuantityUpdate ==
    \A s \in Slots, t \in Slots :
      (/\ s # t
       /\ procs[s].pc = "order_item_save" /\ procs[t].pc = "order_item_save"
       /\ procs[s].order_item = procs[t].order_item
       /\ procs[s].order_item_row = order_items[procs[s].order_item]
       /\ procs[t].order_item_row = order_items[procs[t].order_item]) =>
        LET k == procs[s].order_item
            q == order_items[k].quantity
            first == SaveIncremented(order_items, k, procs[s].order_item_row)
            second == SaveIncremented(first, k, procs[t].order_item_row)
        IN  second[k].quantity = q + 2

====
